---- MODULE Spec2Model ----
(***************************************************************************)
(* A model of proxyctl (src/proxyctl.go): the policy codec and validation, *)
(* the list/clear/add operations against the HNS endpoint store, and the   *)
(* hnsdiag output scanner with the container-to-endpoint resolver.         *)
(*                                                                         *)
(* Three specifications share the module:                                  *)
(*   SpecResolve  GetEndpointFromContainer (scanner, decode, match)        *)
(*   SpecCodec    AddPolicy's encoding followed by hcnPolicyToAPIPolicy    *)
(*   SpecStore    AddPolicy / ListPolicies / ClearPolicies run by two      *)
(*                actors against one endpoint of the store                 *)
(***************************************************************************)
EXTENDS Integers, Sequences, FiniteSets, TLC

VARIABLES
    \* ---- GetEndpointFromContainer ----
    rpc,          \* position in GetEndpointFromContainer
    containerID,  \* the argument
    pieces,       \* how the tool's output was put together (history)
    hnsOut,       \* the bytes hnsdiag wrote (bytes.Buffer)
    bufLen,       \* len(s.buf) of the bufio.Scanner
    bufStart,     \* s.start
    bufEnd,       \* s.end
    rpos,         \* bytes of hnsOut already read into the scanner's buffer
    scanErr,      \* s.err: "nil", "EOF", "ErrAdvanceTooFar", "ErrTooLong"
    tokens,       \* the tokens Scan has yielded, in order (history)
    advances,     \* the advance that went with each yielded token (history)
    lastAdvance,  \* advance returned by the last call of the split function
    lastDataLen,  \* len(data) of that call
    decoded,      \* the records decoded from the tokens, in order (history)
    decodeFailed, \* a token could not be decoded (history)
    retID,        \* returned hnsEndpointID
    retErr,       \* returned err
    panicMsg,     \* why the goroutine panicked, "" if it did not
    \* ---- encode / decode of one policy ----
    cpc,          \* "start", "rejected", "encoded", "decoded"
    cpolicy,      \* the Policy given to AddPolicy
    cwire,        \* the hcn.EndpointPolicy AddPolicy builds from it
    cout,         \* the Policy hcnPolicyToAPIPolicy makes of cwire
    \* ---- the endpoint store and its callers ----
    policies,     \* endpoint.Policies of the one endpoint, as HNS holds them
    pc,           \* per actor: position in its operation
    op,           \* per actor: "none", "add", "list", "clear"
    arg,          \* per actor: the Policy given to AddPolicy
    snap,         \* per actor: what listPolicies returned
    req,          \* per actor: the Policies of the request it built
    ret,          \* per actor: what the operation returned
    opsDone,      \* per actor: operations started so far
    calls,        \* per actor: store calls made by the operation (history)
    writes,       \* per actor: store changes made by the operation (history)
    storeAtList,  \* per actor: endpoint.Policies when it listed (history)
    storeAtRemove,\* per actor: endpoint.Policies right before its remove (history)
    afterRemove,  \* per actor: endpoint.Policies right after its remove (history)
    othersAdded,  \* per actor: what others added between its list and remove
    othersRemoved \* per actor: others removed between its list and remove

rvars == <<rpc, containerID, pieces, hnsOut, bufLen, bufStart, bufEnd, rpos,
           scanErr, tokens, advances, lastAdvance, lastDataLen, decoded,
           decodeFailed, retID, retErr, panicMsg>>

cvars == <<cpc, cpolicy, cwire, cout>>

svars == <<policies, pc, op, arg, snap, req, ret, opsDone, calls, writes,
           storeAtList, storeAtRemove, afterRemove, othersAdded, othersRemoved>>

vars == <<rvars, cvars, svars>>

(***************************************************************************)
(* Bounds.                                                                 *)
(***************************************************************************)
\* Number of pieces (records, separators, fragments) in the tool's output.
MaxPieces == 4
\* bufio's startBufSize (4096 in Go), scaled down so that the buffer is
\* refilled, shifted and doubled within a few records.
StartBufSize == 4
\* bufio.MaxScanTokenSize (64 KiB in Go), scaled down alike.
MaxScanTokenSize == 64

(***************************************************************************)
(* Bytes and texts.  A text is a sequence of bytes.  Inside an object the  *)
(* byte "a"/"b" stands for an ID field with that value and "1"/"2" for one *)
(* entry of SharedContainers.                                              *)
(***************************************************************************)
LF == "\n"
IDBytes == {"a", "b"}
ContainerBytes == {"1", "2"}

\* Well-formed endpoint objects: they end with newline + '}' and hold that
\* marker nowhere else.
RecordTexts ==
    { <<"{", "a", "1", LF, "}">>,
      <<"{", "b", "1", "2", LF, "}">> }

\* What else the output may hold: a newline between objects, an incomplete
\* fragment without the marker, and an object that is not JSON.
Separator == <<LF>>
Fragment == <<"{", "a">>
BadRecord == <<"x", LF, "}">>

Pieces == RecordTexts \cup {Separator, Fragment, BadRecord}

ContainerIDs == {"1", "2", "9"}

\* What may lie in the scanner's buffer past s.end.
StaleBytes == {"\\0", "{", LF}

RECURSIVE Flatten(_)
Flatten(ss) == IF ss = <<>> THEN <<>> ELSE Head(ss) \o Flatten(Tail(ss))

Min(a, b) == IF a <= b THEN a ELSE b

(***************************************************************************)
(* The split function of the scanner.                                      *)
(***************************************************************************)
endOfEndpoint == <<LF, "}">>

\* bytes.Index(data, endOfEndpoint), 0-based, -1 if absent.
Index(data) ==
    LET hits == { i \in 0..(Len(data) - 2) :
                    data[i + 1] = endOfEndpoint[1] /\ data[i + 2] = endOfEndpoint[2] }
    IN  IF hits = {} THEN -1 ELSE CHOOSE i \in hits : \A j \in hits : i <= j

\* advance for a marker found at offset i.
SplitAdvance(i) == i + Len(endOfEndpoint) + 1

\* The closure given to scanner.Split.  capData is cap(data); stale is the
\* byte the buffer holds right after data.  data[:advance] panics when
\* advance exceeds cap(data) and reaches past len(data) otherwise.
Split(data, atEOF, capData, stale) ==
    IF atEOF /\ Len(data) = 0
    THEN [advance |-> 0, token |-> <<>>, panic |-> FALSE]
    ELSE IF Index(data) # -1
    THEN LET adv == SplitAdvance(Index(data))
         IN  IF adv > capData
             THEN [advance |-> adv, token |-> <<>>, panic |-> TRUE]
             ELSE [advance |-> adv,
                   token |-> IF adv <= Len(data) THEN SubSeq(data, 1, adv)
                                                 ELSE data \o <<stale>>,
                   panic |-> FALSE]
    ELSE [advance |-> 0, token |-> <<>>, panic |-> FALSE]

(***************************************************************************)
(* json.Unmarshal into hnsEndpoint{ID, SharedContainers}.  White space     *)
(* around the object is skipped; anything else around it, or a byte in it  *)
(* that is no field, is a syntax error.  Of repeated ID fields the last    *)
(* one wins.                                                               *)
(***************************************************************************)
IsSpace(b) == b = LF

RECURSIVE TrimLeft(_)
TrimLeft(s) == IF s # <<>> /\ IsSpace(Head(s)) THEN TrimLeft(Tail(s)) ELSE s

RECURSIVE TrimRight(_)
TrimRight(s) ==
    IF s # <<>> /\ IsSpace(s[Len(s)]) THEN TrimRight(SubSeq(s, 1, Len(s) - 1)) ELSE s

IsIDByte(b) == b \in IDBytes
IsContainerByte(b) == b \in ContainerBytes

UnmarshalEndpoint(tok) ==
    LET s    == TrimRight(TrimLeft(tok))
        body == SubSeq(s, 2, Len(s) - 1)
        ids  == SelectSeq(body, IsIDByte)
    IN  IF /\ Len(s) >= 2
           /\ s[1] = "{"
           /\ s[Len(s)] = "}"
           /\ \A i \in 1..Len(body) : body[i] \in IDBytes \cup ContainerBytes \cup {LF}
        THEN [ok |-> TRUE,
              ID |-> IF ids = <<>> THEN "" ELSE ids[Len(ids)],
              SharedContainers |-> SelectSeq(body, IsContainerByte)]
        ELSE [ok |-> FALSE, ID |-> "", SharedContainers |-> <<>>]

\* A variant that looks at the first attached container only.
AttachedToFirstOnly(endpoint, id) ==
    /\ endpoint.SharedContainers # <<>>
    /\ endpoint.SharedContainers[1] = id

\* The inner loop of GetEndpointFromContainer: is the container attached?
AttachedTo(endpoint, id) ==
    \E i \in 1..Len(endpoint.SharedContainers) : endpoint.SharedContainers[i] = id

(***************************************************************************)
(* Policy, and the wire schema of hcn.                                     *)
(*                                                                         *)
(* A Go string is a sequence of characters; "\\xff" stands for a byte that *)
(* is not valid UTF-8 and "\\ufffd" for the replacement character.  A      *)
(* net.IP is a byte slice, nil or not.  The text of an address keeps the   *)
(* form it is written in (dotted quad, colon-hex, ...) and its bytes.      *)
(***************************************************************************)
LocalSystemSID == <<"S", "-", "1", "-", "5", "-", "1", "8">>
TCP == 6
L4Proxy == "L4Proxy"

NilIP == [isNil |-> TRUE, b |-> <<>>]
IP(bytes) == [isNil |-> FALSE, b |-> bytes]

v4InV6Prefix == <<0, 0, 0, 0, 0, 0, 0, 0, 0, 0, 255, 255>>

\* ip.To4(): the 4-byte form, <<>> (nil) if ip is no IPv4 address.
To4(b) ==
    IF Len(b) = 4 THEN b
    ELSE IF Len(b) = 16 /\ SubSeq(b, 1, 12) = v4InV6Prefix THEN SubSeq(b, 13, 16)
    ELSE <<>>

EmptyText == [form |-> "", b |-> <<>>]

\* ip.String()
IPString(b) ==
    IF Len(b) = 0 THEN [form |-> "<nil>", b |-> <<>>]
    ELSE IF Len(b) # 4 /\ Len(b) # 16 THEN [form |-> "?hex", b |-> b]
    ELSE IF Len(To4(b)) = 4 THEN [form |-> "dotted", b |-> To4(b)]
    ELSE [form |-> "colon", b |-> b]

\* formatIP: the address as a string, or the empty string if it is nil.
formatIP(ip) == IF ip.isNil THEN EmptyText ELSE IPString(ip.b)

\* net.ParseIP: a 16-byte address, nil if the text is no address.
ParseIP(text) ==
    IF text.form = "dotted" THEN IP(v4InV6Prefix \o text.b)
    ELSE IF text.form = "colon" THEN IP(text.b)
    ELSE NilIP

\* strconv.Itoa of a number >= 0: its decimal digits.
RECURSIVE Itoa(_)
Itoa(n) == IF n < 10 THEN <<n>> ELSE Append(Itoa(n \div 10), n % 10)

RECURSIVE DigitsValue(_)
DigitsValue(s) ==
    IF s = <<>> THEN 0 ELSE 10 * DigitsValue(SubSeq(s, 1, Len(s) - 1)) + s[Len(s)]

\* strconv.Atoi with its error dropped: 0 for a string that is no number.
Atoi(s) == IF s = <<>> THEN 0 ELSE DigitsValue(s)

\* encoding/json writes a byte that is not valid UTF-8 as U+FFFD.
SanitizeUTF8(s) == [i \in 1..Len(s) |-> IF s[i] = "\\xff" THEN "\\ufffd" ELSE s[i]]

ZeroSetting ==
    [ProxyType |-> "VFP", Port |-> <<>>, UserSID |-> <<>>, CompartmentID |-> 0,
     FilterTuple |-> [LocalAddresses |-> EmptyText, RemoteAddresses |-> EmptyText,
                      Protocols |-> <<>>, Priority |-> 0]]

\* json.Marshal(policySetting)
MarshalSetting(setting) ==
    [kind |-> "object", val |-> [setting EXCEPT !.UserSID = SanitizeUTF8(@)]]

\* json.Unmarshal(hcnPolicy.Settings, &hcnPolicySetting): a payload of another
\* shape leaves the setting at its zero value and returns an error.
UnmarshalSetting(payload) ==
    IF payload.kind = "object" THEN [err |-> "nil", val |-> payload.val]
    ELSE [err |-> "UnmarshalError", val |-> ZeroSetting]

\* A settings payload that is JSON, but of another schema.
OtherPayload == [kind |-> "other", val |-> ZeroSetting]

\* A variant that checks nothing.
validatePolicyNoCheck(policy) == "nil"

\* validatePolicy: "nil" iff the policy is valid.
validatePolicy(policy) ==
    IF policy.ProxyPort = 0 THEN "ValidationError" ELSE "nil"

\* A variant that keeps the caller's protocol.
KeepProtocol(policy) == policy

\* AddPolicy: policy.Protocol = TCP
ForceProtocol(policy) == [policy EXCEPT !.Protocol = TCP]

\* AddPolicy: the hcn.EndpointPolicy built from a policy.
EndpointPolicyOf(policy) ==
    LET p == ForceProtocol(policy)
        policySetting ==
            [ProxyType |-> "WFP",
             Port |-> Itoa(p.ProxyPort),
             UserSID |-> p.UserSID,
             CompartmentID |-> p.CompartmentID,
             FilterTuple |-> [LocalAddresses |-> formatIP(p.LocalAddr),
                              RemoteAddresses |-> formatIP(p.RemoteAddr),
                              Protocols |-> Itoa(p.Protocol),
                              Priority |-> p.Priority]]
    IN  [Type |-> L4Proxy, Settings |-> MarshalSetting(policySetting)]

\* hcnPolicyToAPIPolicy, for a policy of type L4Proxy.
hcnPolicyToAPIPolicy(hcnPolicy) ==
    LET hcnPolicySetting == UnmarshalSetting(hcnPolicy.Settings).val
        port == Atoi(hcnPolicySetting.Port)
        protocol == Atoi(hcnPolicySetting.FilterTuple.Protocols)
    IN  [ProxyPort |-> port % 65536,
         UserSID |-> hcnPolicySetting.UserSID,
         CompartmentID |-> hcnPolicySetting.CompartmentID,
         LocalAddr |-> ParseIP(hcnPolicySetting.FilterTuple.LocalAddresses),
         RemoteAddr |-> ParseIP(hcnPolicySetting.FilterTuple.RemoteAddresses),
         Priority |-> hcnPolicySetting.FilterTuple.Priority % 256,
         Protocol |-> protocol % 256]

ZeroPolicy ==
    [ProxyPort |-> 0, UserSID |-> <<>>, CompartmentID |-> 0, LocalAddr |-> NilIP,
     RemoteAddr |-> NilIP, Priority |-> 0, Protocol |-> 0]

\* The policies a caller may pass.
Ports == {0, 1, 8000, 65535}
UserSIDs == {<<>>, LocalSystemSID, <<"S", "\\xff">>}
CompartmentIDs == {0, 2, 2147483647}
Addrs ==
    { NilIP,
      IP(<<>>),
      IP(<<10, 0, 0, 1>>),
      IP(v4InV6Prefix \o <<10, 0, 0, 1>>),
      IP(<<32, 1, 13, 184, 0, 0, 0, 0, 0, 0, 0, 0, 0, 0, 0, 1>>),
      IP(<<1, 2, 3>>) }
Priorities == {0, 255}
Protocols == {0, TCP, 17}

PolicyInputs ==
    [ProxyPort : Ports, UserSID : UserSIDs, CompartmentID : CompartmentIDs,
     LocalAddr : Addrs, RemoteAddr : Addrs, Priority : Priorities,
     Protocol : Protocols]

(***************************************************************************)
(* The endpoint store (HNS, reached through hcn) and what its callers do.  *)
(***************************************************************************)
Actors == {"a1", "a2"}

\* Operations each actor starts.
MaxOps == 1

IsL4Proxy(policy) == policy.Type = L4Proxy

\* A variant that does not filter.
listPoliciesUnfiltered(endpointPolicies) == endpointPolicies

\* listPolicies: the policies of type L4Proxy, in the endpoint's order.
listPolicies(endpointPolicies) == SelectSeq(endpointPolicies, IsL4Proxy)

\* A variant that counts one policy too few.
NumRemovedOffByOne(listed) == IF listed = <<>> THEN 0 ELSE Len(listed) - 1

\* ClearPolicies: the number it returns next to the store's answer.
NumRemoved(listed) == Len(listed)

\* The store removes from the endpoint one policy for each policy of a remove
\* request (RequestTypeRemove), and leaves the others as they are.
RECURSIVE RemoveOne(_, _)
RemoveOne(ps, p) ==
    IF ps = <<>> THEN <<>>
    ELSE IF Head(ps) = p THEN Tail(ps)
    ELSE <<Head(ps)>> \o RemoveOne(Tail(ps), p)

RECURSIVE RemovePolicies(_, _)
RemovePolicies(ps, request) ==
    IF request = <<>> THEN ps
    ELSE RemovePolicies(RemoveOne(ps, Head(request)), Tail(request))

\* The store appends the policies of an add request (RequestTypeAdd).
AddPolicies(ps, request) == ps \o request

\* What the endpoint may hold to begin with.
P1 == [ProxyPort |-> 8000, UserSID |-> LocalSystemSID, CompartmentID |-> 2,
       LocalAddr |-> NilIP, RemoteAddr |-> NilIP, Priority |-> 0, Protocol |-> 0]
P2 == [ProxyPort |-> 1, UserSID |-> <<>>, CompartmentID |-> 0,
       LocalAddr |-> IP(<<10, 0, 0, 1>>), RemoteAddr |-> NilIP, Priority |-> 255,
       Protocol |-> 17]
P3 == [P1 EXCEPT !.ProxyPort = 65535]
P0 == [P1 EXCEPT !.ProxyPort = 0]
P4 == [ProxyPort |-> 65535, UserSID |-> <<"S", "\\xff">>, CompartmentID |-> 2147483647,
       LocalAddr |-> IP(<<1, 2, 3>>),
       RemoteAddr |-> IP(<<32, 1, 13, 184, 0, 0, 0, 0, 0, 0, 0, 0, 0, 0, 0, 1>>),
       Priority |-> 255, Protocol |-> 17]

NonProxy == [Type |-> "ACL", Settings |-> OtherPayload]
Malformed == [Type |-> L4Proxy, Settings |-> OtherPayload]

InitStores ==
    { <<>>,
      <<NonProxy>>,
      <<EndpointPolicyOf(P1)>>,
      <<EndpointPolicyOf(P1), NonProxy, EndpointPolicyOf(P2), EndpointPolicyOf(P3)>>,
      <<NonProxy, Malformed>> }

AddInputs == {P0, P1, P2, P4}

NoResult == [n |-> 0, err |-> "nil", list |-> <<>>]

\* The variables of a specification that is not the one being run.
CodecOff ==
    /\ cpc = "off"
    /\ cpolicy = ZeroPolicy
    /\ cwire = NonProxy
    /\ cout = ZeroPolicy

StoreOff ==
    /\ policies = <<>>
    /\ pc = [a \in Actors |-> "off"]
    /\ op = [a \in Actors |-> "none"]
    /\ arg = [a \in Actors |-> ZeroPolicy]
    /\ snap = [a \in Actors |-> <<>>]
    /\ req = [a \in Actors |-> <<>>]
    /\ ret = [a \in Actors |-> NoResult]
    /\ opsDone = [a \in Actors |-> 0]
    /\ calls = [a \in Actors |-> 0]
    /\ writes = [a \in Actors |-> 0]
    /\ storeAtList = [a \in Actors |-> <<>>]
    /\ storeAtRemove = [a \in Actors |-> <<>>]
    /\ afterRemove = [a \in Actors |-> <<>>]
    /\ othersAdded = [a \in Actors |-> <<>>]
    /\ othersRemoved = [a \in Actors |-> FALSE]

ResolveOff ==
    /\ rpc = "off"
    /\ containerID = ""
    /\ pieces = <<>>
    /\ hnsOut = <<>>
    /\ bufLen = 0
    /\ bufStart = 0
    /\ bufEnd = 0
    /\ rpos = 0
    /\ scanErr = "nil"
    /\ tokens = <<>>
    /\ advances = <<>>
    /\ lastAdvance = 0
    /\ lastDataLen = 0
    /\ decoded = <<>>
    /\ decodeFailed = FALSE
    /\ retID = ""
    /\ retErr = "nil"
    /\ panicMsg = ""

(***************************************************************************)
(* GetEndpointFromContainer.                                               *)
(***************************************************************************)
AllPieceSeqs == UNION { [1..n -> Pieces] : n \in 0..MaxPieces }

InitResolve ==
    /\ CodecOff
    /\ StoreOff
    /\ rpc = "run"
    /\ containerID \in ContainerIDs
    /\ pieces = <<>>
    /\ hnsOut = <<>>
    /\ bufLen = 0
    /\ bufStart = 0
    /\ bufEnd = 0
    /\ rpos = 0
    /\ scanErr = "nil"
    /\ tokens = <<>>
    /\ advances = <<>>
    /\ lastAdvance = 0
    /\ lastDataLen = 0
    /\ decoded = <<>>
    /\ decodeFailed = FALSE
    /\ retID = ""
    /\ retErr = "nil"
    /\ panicMsg = ""

\* hnsCmd.Run fails: the error is returned as it is.
RunFails ==
    /\ UNCHANGED <<cvars, svars>>
    /\ rpc = "run"
    /\ rpc' = "returned"
    /\ retErr' = "ExternalToolError"
    /\ UNCHANGED <<containerID, pieces, hnsOut, bufLen, bufStart, bufEnd, rpos,
                   scanErr, tokens, advances, lastAdvance, lastDataLen, decoded,
                   decodeFailed, retID, panicMsg>>

\* hnsCmd.Run succeeds and leaves the tool's output in hnsOut.
RunSucceeds ==
    /\ UNCHANGED <<cvars, svars>>
    /\ rpc = "run"
    /\ \E ps \in AllPieceSeqs :
         /\ pieces' = ps
         /\ hnsOut' = Flatten(ps)
    /\ rpc' = "scan"
    /\ UNCHANGED <<containerID, bufLen, bufStart, bufEnd, rpos, scanErr, tokens,
                   advances, lastAdvance, lastDataLen, decoded, decodeFailed,
                   retID, retErr, panicMsg>>

\* The bytes the scanner holds unconsumed: s.buf[s.start:s.end].
Data == SubSeq(hnsOut, rpos - (bufEnd - bufStart) + 1, rpos)

\* Scan: the scanner holds data (or has seen the end of input) and calls the
\* split function.
ScanSplit ==
    /\ UNCHANGED <<cvars, svars>>
    /\ rpc = "scan"
    /\ bufEnd > bufStart \/ scanErr # "nil"
    /\ \E stale \in StaleBytes :
         LET r == Split(Data, scanErr # "nil", bufLen - bufStart, stale)
         IN  /\ lastAdvance' = r.advance
             /\ lastDataLen' = Len(Data)
             /\ IF r.panic
                THEN \* slice bounds out of range
                     /\ rpc' = "panicked"
                     /\ panicMsg' = "slice bounds out of range"
                     /\ UNCHANGED <<bufStart, scanErr, tokens, advances>>
                ELSE IF r.advance > bufEnd - bufStart
                THEN \* s.advance refuses: Scan returns false
                     /\ scanErr' = "ErrAdvanceTooFar"
                     /\ rpc' = "notfound"
                     /\ UNCHANGED <<bufStart, tokens, advances, panicMsg>>
                ELSE /\ bufStart' = bufStart + r.advance
                     /\ IF r.token # <<>>
                        THEN /\ tokens' = Append(tokens, r.token)
                             /\ advances' = Append(advances, r.advance)
                             /\ rpc' = "decode"
                        ELSE /\ rpc' = "fill"
                             /\ UNCHANGED <<tokens, advances>>
                     /\ UNCHANGED <<scanErr, panicMsg>>
    /\ UNCHANGED <<containerID, pieces, hnsOut, bufLen, bufEnd, rpos, decoded,
                   decodeFailed, retID, retErr>>

\* Scan: no token can be made of what the scanner holds.  At the end of input
\* Scan returns false; otherwise the data is shifted to the front of the
\* buffer, the buffer is doubled if it is full, and input is read.
ScanFill ==
    /\ UNCHANGED <<cvars, svars>>
    /\ \/ rpc = "fill"
       \/ rpc = "scan" /\ bufEnd = bufStart /\ scanErr = "nil"
    /\ IF scanErr # "nil"
       THEN /\ bufStart' = 0
            /\ bufEnd' = 0
            /\ rpc' = "notfound"
            /\ UNCHANGED <<bufLen, rpos, scanErr>>
       ELSE LET shift == bufStart > 0 /\ (bufEnd = bufLen \/ bufStart > bufLen \div 2)
                st1   == IF shift THEN 0 ELSE bufStart
                en1   == IF shift THEN bufEnd - bufStart ELSE bufEnd
                full  == en1 = bufLen
                grown == Min(IF bufLen = 0 THEN StartBufSize ELSE 2 * bufLen,
                             MaxScanTokenSize)
            IN  IF full /\ bufLen >= MaxScanTokenSize
                THEN /\ scanErr' = "ErrTooLong"
                     /\ rpc' = "notfound"
                     /\ bufStart' = st1
                     /\ bufEnd' = en1
                     /\ UNCHANGED <<bufLen, rpos>>
                ELSE LET len2 == IF full THEN grown ELSE bufLen
                         st2  == IF full THEN 0 ELSE st1
                         en2  == IF full THEN en1 - st1 ELSE en1
                         n    == Min(len2 - en2, Len(hnsOut) - rpos)
                     IN  /\ bufLen' = len2
                         /\ bufStart' = st2
                         /\ bufEnd' = en2 + n
                         /\ rpos' = rpos + n
                         \* bytes.Buffer.Read answers io.EOF once it is empty
                         /\ scanErr' = IF n = 0 THEN "EOF" ELSE "nil"
                         /\ rpc' = "scan"
    /\ UNCHANGED <<containerID, pieces, hnsOut, tokens, advances, lastAdvance,
                   lastDataLen, decoded, decodeFailed, retID, retErr, panicMsg>>

\* json.Unmarshal(scanner.Bytes(), &endpoint); panic(err) if it fails.
DecodeToken ==
    /\ UNCHANGED <<cvars, svars>>
    /\ rpc = "decode"
    /\ LET endpoint == UnmarshalEndpoint(tokens[Len(tokens)])
       IN  IF endpoint.ok
           THEN /\ decoded' = Append(decoded, endpoint)
                /\ rpc' = "match"
                /\ UNCHANGED <<decodeFailed, panicMsg>>
           ELSE /\ decodeFailed' = TRUE
                /\ rpc' = "panicked"
                /\ panicMsg' = "json"
                /\ UNCHANGED decoded
    /\ UNCHANGED <<containerID, pieces, hnsOut, bufLen, bufStart, bufEnd, rpos,
                   scanErr, tokens, advances, lastAdvance, lastDataLen, retID,
                   retErr>>

\* for _, attachedID := range endpoint.SharedContainers { ... }
MatchContainers ==
    /\ UNCHANGED <<cvars, svars>>
    /\ rpc = "match"
    /\ LET endpoint == decoded[Len(decoded)]
       IN  IF AttachedTo(endpoint, containerID)
           THEN /\ retID' = endpoint.ID
                /\ retErr' = "nil"
                /\ rpc' = "returned"
           ELSE /\ rpc' = "scan"
                /\ UNCHANGED <<retID, retErr>>
    /\ UNCHANGED <<containerID, pieces, hnsOut, bufLen, bufStart, bufEnd, rpos,
                   scanErr, tokens, advances, lastAdvance, lastDataLen, decoded,
                   decodeFailed, panicMsg>>

\* Scan returned false: no endpoint was found.
ReturnNotFound ==
    /\ UNCHANGED <<cvars, svars>>
    /\ rpc = "notfound"
    /\ rpc' = "returned"
    /\ retID' = ""
    /\ retErr' = "NotFoundError"
    /\ UNCHANGED <<containerID, pieces, hnsOut, bufLen, bufStart, bufEnd, rpos,
                   scanErr, tokens, advances, lastAdvance, lastDataLen, decoded,
                   decodeFailed, panicMsg>>

NextResolve ==
    \/ RunFails
    \/ RunSucceeds
    \/ ScanSplit
    \/ ScanFill
    \/ DecodeToken
    \/ MatchContainers
    \/ ReturnNotFound

SpecResolve == InitResolve /\ [][NextResolve]_vars

(***************************************************************************)
(* One policy through AddPolicy's encoding and hcnPolicyToAPIPolicy.       *)
(***************************************************************************)
InitCodec ==
    /\ ResolveOff
    /\ StoreOff
    /\ cpc = "start"
    /\ cpolicy \in PolicyInputs
    /\ cwire = NonProxy
    /\ cout = ZeroPolicy

\* AddPolicy returns the error of validatePolicy.
CodecReject ==
    /\ UNCHANGED <<rvars, svars>>
    /\ cpc = "start"
    /\ validatePolicy(cpolicy) # "nil"
    /\ cpc' = "rejected"
    /\ UNCHANGED <<cpolicy, cwire, cout>>

\* AddPolicy builds the endpoint policy it sends to the store.
CodecEncode ==
    /\ UNCHANGED <<rvars, svars>>
    /\ cpc = "start"
    /\ validatePolicy(cpolicy) = "nil"
    /\ cwire' = EndpointPolicyOf(cpolicy)
    /\ cpc' = "encoded"
    /\ UNCHANGED <<cpolicy, cout>>

\* ListPolicies converts it back.
CodecDecode ==
    /\ UNCHANGED <<rvars, svars>>
    /\ cpc = "encoded"
    /\ cout' = hcnPolicyToAPIPolicy(cwire)
    /\ cpc' = "decoded"
    /\ UNCHANGED <<cpolicy, cwire>>

NextCodec ==
    \/ CodecReject
    \/ CodecEncode
    \/ CodecDecode

SpecCodec == InitCodec /\ [][NextCodec]_vars

(***************************************************************************)
(* AddPolicy, ListPolicies and ClearPolicies, run by the actors against    *)
(* the one endpoint.  Every call of the store is one step, and may fail.   *)
(***************************************************************************)
InitStore ==
    /\ ResolveOff
    /\ CodecOff
    /\ policies \in InitStores
    /\ pc = [a \in Actors |-> "idle"]
    /\ op = [a \in Actors |-> "none"]
    /\ arg = [a \in Actors |-> ZeroPolicy]
    /\ snap = [a \in Actors |-> <<>>]
    /\ req = [a \in Actors |-> <<>>]
    /\ ret = [a \in Actors |-> NoResult]
    /\ opsDone = [a \in Actors |-> 0]
    /\ calls = [a \in Actors |-> 0]
    /\ writes = [a \in Actors |-> 0]
    /\ storeAtList = [a \in Actors |-> <<>>]
    /\ storeAtRemove = [a \in Actors |-> <<>>]
    /\ afterRemove = [a \in Actors |-> <<>>]
    /\ othersAdded = [a \in Actors |-> <<>>]
    /\ othersRemoved = [a \in Actors |-> FALSE]

\* The actors that have listed and not yet removed, a excepted.
Clearing(a) == { b \in Actors \ {a} : pc[b] = "listed" /\ op[b] = "clear" }

\* An actor calls AddPolicy, ListPolicies or ClearPolicies.
Begin(a) ==
    /\ UNCHANGED <<rvars, cvars>>
    /\ pc[a] \in {"idle", "done"}
    /\ opsDone[a] < MaxOps
    /\ \E o \in {"add", "list", "clear"} :
         /\ op' = [op EXCEPT ![a] = o]
         /\ IF o = "add"
            THEN \E p \in AddInputs : arg' = [arg EXCEPT ![a] = p]
            ELSE arg' = [arg EXCEPT ![a] = ZeroPolicy]
    /\ pc' = [pc EXCEPT ![a] = "start"]
    /\ opsDone' = [opsDone EXCEPT ![a] = @ + 1]
    /\ snap' = [snap EXCEPT ![a] = <<>>]
    /\ req' = [req EXCEPT ![a] = <<>>]
    /\ ret' = [ret EXCEPT ![a] = NoResult]
    /\ calls' = [calls EXCEPT ![a] = 0]
    /\ writes' = [writes EXCEPT ![a] = 0]
    /\ storeAtList' = [storeAtList EXCEPT ![a] = <<>>]
    /\ storeAtRemove' = [storeAtRemove EXCEPT ![a] = <<>>]
    /\ afterRemove' = [afterRemove EXCEPT ![a] = <<>>]
    /\ othersAdded' = [othersAdded EXCEPT ![a] = <<>>]
    /\ othersRemoved' = [othersRemoved EXCEPT ![a] = FALSE]
    /\ UNCHANGED policies

\* AddPolicy: validatePolicy, then the request is built.
AddValidate(a) ==
    /\ UNCHANGED <<rvars, cvars>>
    /\ pc[a] = "start"
    /\ op[a] = "add"
    /\ IF validatePolicy(arg[a]) # "nil"
       THEN /\ ret' = [ret EXCEPT ![a].err = validatePolicy(arg[a])]
            /\ pc' = [pc EXCEPT ![a] = "done"]
            /\ UNCHANGED req
       ELSE /\ req' = [req EXCEPT ![a] = <<EndpointPolicyOf(arg[a])>>]
            /\ pc' = [pc EXCEPT ![a] = "addGet"]
            /\ UNCHANGED ret
    /\ UNCHANGED <<policies, op, arg, snap, opsDone, calls, writes, storeAtList,
                   storeAtRemove, afterRemove, othersAdded, othersRemoved>>

\* AddPolicy: hcn.GetEndpointByID
AddGetEndpoint(a) ==
    /\ UNCHANGED <<rvars, cvars>>
    /\ pc[a] = "addGet"
    /\ calls' = [calls EXCEPT ![a] = @ + 1]
    /\ \E ok \in BOOLEAN :
         IF ok
         THEN /\ pc' = [pc EXCEPT ![a] = "addApply"]
              /\ UNCHANGED ret
         ELSE /\ ret' = [ret EXCEPT ![a].err = "NotFoundError"]
              /\ pc' = [pc EXCEPT ![a] = "done"]
    /\ UNCHANGED <<policies, op, arg, snap, req, opsDone, writes, storeAtList,
                   storeAtRemove, afterRemove, othersAdded, othersRemoved>>

\* AddPolicy: endpoint.ApplyPolicy(hcn.RequestTypeAdd, request)
AddApply(a) ==
    /\ UNCHANGED <<rvars, cvars>>
    /\ pc[a] = "addApply"
    /\ calls' = [calls EXCEPT ![a] = @ + 1]
    /\ \E ok \in BOOLEAN :
         IF ok
         THEN /\ policies' = AddPolicies(policies, req[a])
              /\ writes' = [writes EXCEPT ![a] = @ + 1]
              /\ othersAdded' = [b \in Actors |->
                                   IF b \in Clearing(a)
                                   THEN othersAdded[b] \o req[a]
                                   ELSE othersAdded[b]]
              /\ UNCHANGED ret
         ELSE /\ ret' = [ret EXCEPT ![a].err = "StoreError"]
              /\ UNCHANGED <<policies, writes, othersAdded>>
    /\ pc' = [pc EXCEPT ![a] = "done"]
    /\ UNCHANGED <<op, arg, snap, req, opsDone, storeAtList, storeAtRemove,
                   afterRemove, othersRemoved>>

\* ListPolicies and ClearPolicies: listPolicies (hcn.GetEndpointByID and the
\* filter on the policies' type).
ListEndpoint(a) ==
    /\ UNCHANGED <<rvars, cvars>>
    /\ pc[a] = "start"
    /\ op[a] \in {"list", "clear"}
    /\ calls' = [calls EXCEPT ![a] = @ + 1]
    /\ \E ok \in BOOLEAN :
         IF ok
         THEN /\ snap' = [snap EXCEPT ![a] = listPolicies(policies)]
              /\ storeAtList' = [storeAtList EXCEPT ![a] = policies]
              /\ pc' = [pc EXCEPT ![a] = "listed"]
              /\ UNCHANGED ret
         ELSE /\ ret' = [ret EXCEPT ![a] = [n |-> 0, err |-> "NotFoundError",
                                            list |-> <<>>]]
              /\ pc' = [pc EXCEPT ![a] = "done"]
              /\ UNCHANGED <<snap, storeAtList>>
    /\ UNCHANGED <<policies, op, arg, req, opsDone, writes, storeAtRemove,
                   afterRemove, othersAdded, othersRemoved>>

\* ListPolicies: every listed policy goes through hcnPolicyToAPIPolicy, which
\* panics on a policy of another type.
ListConvert(a) ==
    /\ UNCHANGED <<rvars, cvars>>
    /\ pc[a] = "listed"
    /\ op[a] = "list"
    /\ IF \E i \in 1..Len(snap[a]) : ~IsL4Proxy(snap[a][i])
       THEN /\ pc' = [pc EXCEPT ![a] = "panicked"]
            /\ UNCHANGED ret
       ELSE /\ ret' = [ret EXCEPT ![a] =
                         [n |-> 0, err |-> "nil",
                          list |-> [i \in 1..Len(snap[a]) |->
                                      hcnPolicyToAPIPolicy(snap[a][i])]]]
            /\ pc' = [pc EXCEPT ![a] = "done"]
    /\ UNCHANGED <<policies, op, arg, snap, req, opsDone, calls, writes,
                   storeAtList, storeAtRemove, afterRemove, othersAdded,
                   othersRemoved>>

\* ClearPolicies: the remove request is built of what was listed and sent
\* with hcn.ModifyEndpointSettings; len(policies) is returned with its answer.
ClearRemove(a) ==
    /\ UNCHANGED <<rvars, cvars>>
    /\ pc[a] = "listed"
    /\ op[a] = "clear"
    /\ req' = [req EXCEPT ![a] = snap[a]]
    /\ calls' = [calls EXCEPT ![a] = @ + 1]
    /\ storeAtRemove' = [storeAtRemove EXCEPT ![a] = policies]
    /\ \E ok \in BOOLEAN :
         IF ok
         THEN /\ policies' = RemovePolicies(policies, snap[a])
              /\ writes' = [writes EXCEPT ![a] = @ + 1]
              /\ afterRemove' = [afterRemove EXCEPT ![a] = policies']
              /\ othersRemoved' = [b \in Actors |->
                                     IF b \in Clearing(a) /\ snap[a] # <<>>
                                     THEN TRUE ELSE othersRemoved[b]]
              /\ ret' = [ret EXCEPT ![a] = [n |-> NumRemoved(snap[a]),
                                            err |-> "nil", list |-> <<>>]]
         ELSE /\ ret' = [ret EXCEPT ![a] = [n |-> NumRemoved(snap[a]),
                                            err |-> "StoreError", list |-> <<>>]]
              /\ UNCHANGED <<policies, writes, afterRemove, othersRemoved>>
    /\ pc' = [pc EXCEPT ![a] = "done"]
    /\ UNCHANGED <<op, arg, snap, opsDone, storeAtList, othersAdded>>

NextStore ==
    \/ \E a \in Actors : Begin(a)
    \/ \E a \in Actors : AddValidate(a)
    \/ \E a \in Actors : AddGetEndpoint(a)
    \/ \E a \in Actors : AddApply(a)
    \/ \E a \in Actors : ListEndpoint(a)
    \/ \E a \in Actors : ListConvert(a)
    \/ \E a \in Actors : ClearRemove(a)

SpecStore == InitStore /\ [][NextStore]_vars

(***************************************************************************)
(* Properties of GetEndpointFromContainer (SpecResolve).                   *)
(***************************************************************************)
\* Scan has returned false.
ScanEnded == rpc = "notfound" \/ (rpc = "returned" /\ retErr = "NotFoundError")

\* The output is nothing but well-formed records, one right after the other.
OnlyRecords == \A i \in 1..Len(pieces) : pieces[i] \in RecordTexts

\* The output is complete records followed by bytes that hold no marker.
RecordsThenFragment ==
    \E n \in 0..Len(pieces) :
        /\ \A i \in 1..n : pieces[i] \in RecordTexts
        /\ \A i \in (n + 1)..Len(pieces) : pieces[i] = Fragment

NumRecords == Cardinality({ i \in 1..Len(pieces) : pieces[i] \in RecordTexts })

\* C1: over an output that is N well-formed records with the marker only at
\* their ends, the scanner yields the records themselves: the k-th token is
\* the k-th record up to and including its closing '}', that many bytes are
\* consumed for it, and once the scan is over there are exactly N tokens.
C1_TokensAreRecords ==
    (rpc # "run" /\ OnlyRecords) =>
        /\ Len(tokens) <= Len(pieces)
        /\ \A k \in 1..Len(tokens) :
             /\ k <= Len(pieces) => tokens[k] = pieces[k]
             /\ k <= Len(pieces) => advances[k] = Len(pieces[k])
        /\ ScanEnded => Len(tokens) = Len(pieces)

\* C9: the split function never asks to consume more bytes than it was
\* given; and over complete records followed by an incomplete fragment the
\* scan neither panics nor ends in a scanner error, and once it is over every
\* complete record has been yielded as a token (none for the empty output,
\* one for a single record) and the fragment dropped.
C9_TruncatedInputEndsQuietly ==
    /\ lastAdvance <= lastDataLen
    /\ (rpc # "run" /\ RecordsThenFragment) =>
         /\ panicMsg # "slice bounds out of range"
         /\ scanErr \in {"nil", "EOF"}
         /\ ScanEnded => Len(tokens) = NumRecords

\* C3: when a token cannot be decoded, the call returns an error to its
\* caller: it has not panicked, and it returns neither an endpoint nor
\* "not found".
C3_DecodeFailureIsReturned ==
    decodeFailed =>
        /\ rpc = "returned"
        /\ retErr \notin {"nil", "NotFoundError"}
        /\ retID = ""

\* The container is in the record's list of attached containers.
Matches(record) ==
    \E i \in 1..Len(record.SharedContainers) : record.SharedContainers[i] = containerID

\* C2: the tokens are consumed in the order of the output, each decoded
\* before the next is pulled; a returned endpoint is the ID of the first
\* decoded record that lists the container, and no token after it has been
\* pulled; "not found" with an empty ID is returned exactly when the scan
\* ended and no decoded record lists the container.
C2_FirstMatchWins ==
    /\ Flatten(tokens) = SubSeq(hnsOut, 1, Len(Flatten(tokens)))
    /\ Len(decoded) <= Len(tokens)
    /\ \A k \in 1..Len(decoded) :
         /\ UnmarshalEndpoint(tokens[k]).ok
         /\ decoded[k].ID = UnmarshalEndpoint(tokens[k]).ID
         /\ decoded[k].SharedContainers = UnmarshalEndpoint(tokens[k]).SharedContainers
    /\ (rpc = "returned" /\ retErr = "nil") =>
         /\ decoded # <<>>
         /\ Len(tokens) = Len(decoded)
         /\ Matches(decoded[Len(decoded)])
         /\ retID = decoded[Len(decoded)].ID
         /\ \A j \in 1..(Len(decoded) - 1) : ~Matches(decoded[j])
    /\ (rpc = "returned" /\ retErr = "NotFoundError") =>
         /\ retID = ""
         /\ scanErr # "nil"
         /\ \A j \in 1..Len(decoded) : ~Matches(decoded[j])
    /\ (rpc = "returned" /\ scanErr # "nil") =>
         /\ retErr = "NotFoundError"
         /\ retID = ""

\* The second record of the output was the first to list the container.
C2_Witness ==
    /\ rpc = "returned"
    /\ retErr = "nil"
    /\ Len(decoded) = 2
    /\ retID = "b"
    /\ containerID = "2"

(***************************************************************************)
(* Properties of the codec (SpecCodec).                                    *)
(***************************************************************************)
\* net.IP.Equal: the same address, in 4-byte or 16-byte form.
IPEqual(x, y) ==
    IF Len(x.b) = Len(y.b) THEN x.b = y.b
    ELSE IF Len(x.b) = 4 /\ Len(y.b) = 16 THEN y.b = v4InV6Prefix \o x.b
    ELSE IF Len(x.b) = 16 /\ Len(y.b) = 4 THEN x.b = v4InV6Prefix \o y.b
    ELSE FALSE

RoundTripEqual ==
    /\ cout.ProxyPort = cpolicy.ProxyPort
    /\ cout.UserSID = cpolicy.UserSID
    /\ cout.CompartmentID = cpolicy.CompartmentID
    /\ IPEqual(cout.LocalAddr, cpolicy.LocalAddr)
    /\ IPEqual(cout.RemoteAddr, cpolicy.RemoteAddr)
    /\ cout.Priority = cpolicy.Priority
    /\ cout.Protocol = 6

ValidUTF8(s) == \A i \in 1..Len(s) : s[i] # "\\xff"
IsAddress(ip) == ip.isNil \/ Len(ip.b) \in {4, 16}

\* C5 as claimed: for every policy with a nonzero port, decoding what
\* AddPolicy encodes gives the policy back in every field but the protocol,
\* which is 6.
C5_RoundTripEveryPolicy == cpc = "decoded" => RoundTripEqual

\* C5: for every policy with a nonzero port whose UserSID is valid UTF-8 and
\* whose addresses are nil or 4 or 16 bytes long, decoding what AddPolicy
\* encodes gives back the same port, UserSID, compartment and priority, the
\* same addresses (a 4-byte address in its 16-byte form) and protocol 6.
C5_RoundTrip ==
    (/\ cpc = "decoded"
     /\ ValidUTF8(cpolicy.UserSID)
     /\ IsAddress(cpolicy.LocalAddr)
     /\ IsAddress(cpolicy.RemoteAddr)) => RoundTripEqual

\* A policy asking for UDP, with an IPv4 address in 4-byte form and an IPv6
\* address, has gone through the round trip.
C5_Witness ==
    /\ cpc = "decoded"
    /\ cpolicy.Protocol = 17
    /\ cpolicy.ProxyPort = 65535
    /\ cpolicy.UserSID = LocalSystemSID
    /\ cpolicy.LocalAddr = IP(<<10, 0, 0, 1>>)
    /\ Len(cout.LocalAddr.b) = 16
    /\ cpolicy.RemoteAddr = IP(<<32, 1, 13, 184, 0, 0, 0, 0, 0, 0, 0, 0, 0, 0, 0, 1>>)

(***************************************************************************)
(* Properties of the operations on the store (SpecStore).                  *)
(***************************************************************************)
ProxyKind(ps) == SelectSeq(ps, LAMBDA p : p.Type = "L4Proxy")
OtherKinds(ps) == SelectSeq(ps, LAMBDA p : p.Type # "L4Proxy")
Count(ps, p) == Cardinality({ i \in 1..Len(ps) : ps[i] = p })

\* C4: AddPolicy returns the validation error exactly when the port is 0,
\* and a policy with port 0 never gets as far as a call of the store: no
\* endpoint lookup, no apply, no change of the endpoint's policies.
C4_ValidationBeforeStore ==
    \A a \in Actors :
        /\ (op[a] = "add" /\ pc[a] = "done") =>
             (ret[a].err = "ValidationError" <=> arg[a].ProxyPort = 0)
        /\ (op[a] = "add" /\ arg[a].ProxyPort = 0) =>
             /\ pc[a] \in {"start", "done"}
             /\ calls[a] = 0
             /\ writes[a] = 0
             /\ req[a] = <<>>

\* AddPolicy has rejected a policy that is valid but for its port.
C4_Witness ==
    \E a \in Actors :
        /\ op[a] = "add"
        /\ pc[a] = "done"
        /\ ret[a].err = "ValidationError"
        /\ arg[a].UserSID = LocalSystemSID

\* C6: ListPolicies over a proxy policy whose settings are not of the wire
\* schema returns an error, and no Policy made of zero values.
C6_SchemaErrorIsReturned ==
    \A a \in Actors :
        (/\ op[a] = "list"
         /\ pc[a] = "done"
         /\ \E i \in 1..Len(snap[a]) : UnmarshalSetting(snap[a][i].Settings).err # "nil")
        => /\ ret[a].err # "nil"
           /\ \A i \in 1..Len(ret[a].list) : ret[a].list[i] # ZeroPolicy

\* ClearPolicies has returned without an error and nobody changed the
\* endpoint between its list and its remove.
ClearedAlone(a) ==
    /\ op[a] = "clear"
    /\ pc[a] = "done"
    /\ ret[a].err = "nil"
    /\ othersAdded[a] = <<>>
    /\ ~othersRemoved[a]

\* C7: when nobody else changes the endpoint and the store succeeds, the
\* remove request of ClearPolicies holds exactly the proxy policies the
\* endpoint held, their number is returned, and the endpoint's policies of
\* other kinds are as they were.
C7_ClearTouchesProxyOnly ==
    \A a \in Actors :
        ClearedAlone(a) =>
            /\ req[a] = ProxyKind(storeAtList[a])
            /\ ret[a].n = Len(ProxyKind(storeAtList[a]))
            /\ OtherKinds(afterRemove[a]) = OtherKinds(storeAtList[a])
            /\ storeAtRemove[a] = storeAtList[a]

\* Three proxy policies were cleared off an endpoint that keeps its one
\* policy of another kind.
C7_Witness ==
    \E a \in Actors :
        /\ ClearedAlone(a)
        /\ ret[a].n = 3
        /\ afterRemove[a] = <<NonProxy>>

\* C8: ClearPolicies returns 0 whenever it returns an error, and when the
\* endpoint has no proxy policy.
C8_ZeroOnError ==
    \A a \in Actors :
        (/\ op[a] = "clear"
         /\ pc[a] = "done"
         /\ (ret[a].err # "nil" \/ snap[a] = <<>>)) => ret[a].n = 0

\* ClearPolicies has returned without an error, and between its list and its
\* remove others added policies and removed none.
ClearedAfterAdd(a) ==
    /\ op[a] = "clear"
    /\ pc[a] = "done"
    /\ ret[a].err = "nil"
    /\ othersAdded[a] # <<>>
    /\ ~othersRemoved[a]

\* C10: when another actor's AddPolicy takes effect between the list and the
\* remove of ClearPolicies, the remove request holds the proxy policies of
\* the list snapshot only, the added policy is on the endpoint right after
\* the remove, and the number returned is the size of the snapshot, which is
\* less than the number of proxy policies the endpoint held at the remove.
C10_AddedPolicySurvivesClear ==
    \A a \in Actors :
        ClearedAfterAdd(a) =>
            /\ req[a] = ProxyKind(storeAtList[a])
            /\ ret[a].n = Len(ProxyKind(storeAtList[a]))
            /\ ret[a].n < Len(ProxyKind(storeAtRemove[a]))
            /\ \A i \in 1..Len(othersAdded[a]) :
                 Count(afterRemove[a], othersAdded[a][i])
                     >= Count(othersAdded[a], othersAdded[a][i])

\* A policy was added while another actor was clearing an endpoint that held
\* proxy policies, and it is all the endpoint holds of that kind afterwards.
C10_Witness ==
    \E a \in Actors :
        /\ ClearedAfterAdd(a)
        /\ ret[a].n = 3
        /\ ProxyKind(afterRemove[a]) = othersAdded[a]

====
